---- MODULE Spec2Model ----
(***************************************************************************)
(* Quantum Olympiad: the hybrid question engine.                           *)
(*                                                                         *)
(*   generator.ts     randInt, shuffle, makeOptions, makeOptionsStr, the   *)
(*                    template registry, generateQuestion, buildQuestion,  *)
(*                    generateQuestionBatch                                *)
(*   hybridEngine.ts  mapDbRowToQuestion, fetchSmartSession                *)
(*   supabaseClient   IS_DEMO_MODE, fetchQuizHistory                       *)
(*                                                                         *)
(* Numbers are kept in hundredths (7.5 is 750), so that the half-integer   *)
(* areas of the templates and toFixed(2) are exact.  Texts are strings.    *)
(***************************************************************************)
EXTENDS Integers, Sequences, FiniteSets, TLC

----------------------------------------------------------------------------
(* Bounds of the model *)

\* fetchSmartSession / generateQuestionBatch are called with count in 0..MaxCount
MaxCount == 2

\* Date.now() takes the values 0..MaxClock
MaxClock == 1

\* a randInt(min, max) of a numeric template draws from its first RandSpan values
RandSpan == 2

----------------------------------------------------------------------------
(* Small helpers *)

Range(f) == { f[i] : i \in DOMAIN f }

Max(a, b) == IF a >= b THEN a ELSE b

Min(a, b) == IF a <= b THEN a ELSE b

abs(n) == IF n < 0 THEN -n ELSE n

\* Array.prototype.indexOf, 0-based, -1 when absent
indexOf(arr, x) ==
  IF \E i \in 1..Len(arr) : arr[i] = x
  THEN (CHOOSE i \in 1..Len(arr) : arr[i] = x /\ \A k \in 1..(i - 1) : arr[k] # x) - 1
  ELSE -1

\* Array.prototype.slice(0, n)
sliceTo(arr, n) == SubSeq(arr, 1, Min(n, Len(arr)))

\* Math.floor(Math.abs(correct) * 0.3) for a number kept in hundredths
floor03(c) == (abs(c) * 3) \div 1000

\* Number.isInteger(n) ? n.toString() : n.toFixed(2)
toFixed2(c) ==
  LET a == abs(c)
      frac == a % 100
  IN (IF c < 0 THEN "-" ELSE "") \o ToString(a \div 100) \o "."
       \o (IF frac < 10 THEN "0" ELSE "") \o ToString(frac)

renderNumber(c) ==
  IF c % 100 = 0 THEN ToString(c \div 100) ELSE toFixed2(c)

----------------------------------------------------------------------------
(* generator.ts: random source and shuffle *)

\* randInt(min, max): every integer of the range can come out
randInt(min, max) == min..max

\* the same, for the parameters of the numeric templates (bounded)
randParam(min, max) == min..Min(max, min + RandSpan - 1)

\* the draws j of one Fisher-Yates pass over n elements: js[i] in 1..i, i = n..2
ShuffleDraws(n) == { js \in [2..n -> 1..Max(n, 1)] : \A i \in 2..n : js[i] <= i }

swap(a, i, j) == [a EXCEPT ![i] = a[j], ![j] = a[i]]

RECURSIVE shuffleFrom(_, _, _)
shuffleFrom(a, i, js) ==
  IF i < 2 THEN a ELSE shuffleFrom(swap(a, i, js[i]), i - 1, js)

\* shuffle(arr): the arrays the loop can return
shuffle(arr) == { shuffleFrom(arr, Len(arr), js) : js \in ShuffleDraws(Len(arr)) }

----------------------------------------------------------------------------
(* generator.ts: option builders *)

\* mutant: the offset counts twice
distractorOf_doubleOffset(correct, offset, size) ==
  correct + 100 * (IF offset = 0 THEN size + 1 ELSE 2 * offset)

\* `correct + (offset === 0 ? (distractors.size + 1) : offset)`
distractorOf(correct, offset, size) ==
  correct + 100 * (IF offset = 0 THEN size + 1 ELSE offset)

\* the loop of makeOptions: the insertion orders of the set `distractors`
RECURSIVE distractorRuns(_, _, _)
distractorRuns(correct, s, ds) ==
  IF Len(ds) >= 3 THEN {ds}
  ELSE LET drawn == { distractorOf(correct, offset, Len(ds)) : offset \in randInt(-s, s) }
           added == { d \in drawn : d # correct /\ d \notin Range(ds) }
       IN  UNION { distractorRuns(correct, s, Append(ds, d)) : d \in added }

spreadOf(correct, spread) ==
  IF spread # 0 THEN spread ELSE Max(1, floor03(correct))

makeOptions(correct, spread) ==
  LET s == spreadOf(correct, spread)
      allNums == { <<correct>> \o ds : ds \in distractorRuns(correct, s, <<>>) }
      shuffledSet == UNION { shuffle(a) : a \in allNums }
  IN  { [options |-> [i \in 1..Len(sh) |-> renderNumber(sh[i])],
         correctIndex |-> indexOf(sh, correct)] : sh \in shuffledSet }

\* mutant: the index of the correct answer taken before the shuffle
makeOptionsStr_indexBeforeShuffle(correct, others) ==
  { [options |-> all, correctIndex |-> 0] :
      all \in shuffle(<<correct>> \o sliceTo(others, 3)) }

makeOptionsStr(correct, others) ==
  { [options |-> all, correctIndex |-> indexOf(all, correct)] :
      all \in shuffle(<<correct>> \o sliceTo(others, 3)) }

----------------------------------------------------------------------------
(* generator.ts: templates.  A template is the set of results it can return *)

\* ASTRONOMI SMA: a, others, and signatureBase =
\* `astro-${a.replace(/[^a-zA-Z0-9]/g, '').slice(0, 10)}`
astronomiTopics ==
  << [a |-> "Jupiter", others |-> <<"Saturnus", "Uranus", "Neptunus">>,
      sig |-> "astro-Jupiter"],
     [a |-> "Proxima Centauri", others |-> <<"Sirius", "Alpha Centauri A", "Betelgeuse">>,
      sig |-> "astro-ProximaCen"],
     [a |-> "Bima Sakti", others |-> <<"Andromeda", "Triangulum", "Sombrero">>,
      sig |-> "astro-BimaSakti"],
     [a |-> "Saturnus", others |-> <<"Jupiter", "Uranus", "Neptunus">>,
      sig |-> "astro-Saturnus"],
     [a |-> "Bulan berada di antara Bumi dan Matahari",
      others |-> <<"Bumi berada di antara Bulan dan Matahari",
                   "Matahari berada di antara Bumi dan Bulan",
                   "Planet lain menghalangi">>,
      sig |-> "astro-Bulanberad"],
     [a |-> "Tahun cahaya", others |-> <<"Kilometer", "Mil", "Meter">>,
      sig |-> "astro-Tahuncahay"] >>

stringResult(t) ==
  [answerNum |-> 0, answerStr |-> t.a, isStringAnswer |-> TRUE,
   otherOptions |-> t.others, spread |-> 0, diagramType |-> "none",
   signatureBase |-> t.sig]

astronomiSMATemplates ==
  << { stringResult(astronomiTopics[i + 1]) :
         i \in randInt(0, Len(astronomiTopics) - 1) } >>

\* Number.prototype.toString(2) of a positive integer
RECURSIVE toBinary(_)
toBinary(n) ==
  IF n < 2 THEN ToString(n) ELSE toBinary(n \div 2) \o ToString(n % 2)

\* INFORMATIKA SMA, first template: decimal to binary; the three wrong options
\* are three more draws of randInt(1, 255), each of its own
binaryTemplate ==
  { [answerNum |-> 0, answerStr |-> toBinary(n), isStringAnswer |-> TRUE,
     otherOptions |-> << toBinary(o1), toBinary(o2), toBinary(o3) >>, spread |-> 0,
     diagramType |-> "none", signatureBase |-> "inf-bin-" \o ToString(n)] :
       n \in randParam(1, 255), o1 \in randParam(1, 255),
       o2 \in randParam(1, 255), o3 \in randParam(1, 255) }

\* INFORMATIKA SMA, second template: the topics the model carries
informatikaTopics ==
  << [a |-> "Dart", others |-> <<"Swift", "Kotlin", "Ruby">>, sig |-> "inf-Dart"],
     [a |-> "8", others |-> <<"4", "16", "32">>, sig |-> "inf-8"] >>

informatikaSMATemplates ==
  << binaryTemplate,
     { stringResult(informatikaTopics[i + 1]) :
         i \in randInt(0, Len(informatikaTopics) - 1) } >>

\* MATEMATIKA SMP, first template: area = 0.5 * b * h
mathSMPTemplate0 ==
  { [answerNum |-> 50 * b * h, answerStr |-> "", isStringAnswer |-> FALSE,
     otherOptions |-> <<>>, spread |-> 0, diagramType |-> "triangle",
     signatureBase |-> "mat-tri-b" \o ToString(b) \o "-h" \o ToString(h)] :
       b \in randParam(5, 20), h \in randParam(3, 15) }

Levels == {"SMP", "SMA"}

\* the subjects the model calls the engine with
Subjects == {"Astronomi", "Informatika"}

registryKey(lv, sb) == lv \o "-" \o sb

\* the keys of templateRegistry that the model carries
RegisteredKeys == {"SMA-Astronomi", "SMA-Informatika"}

templateRegistry ==
  [key \in RegisteredKeys |->
     IF key = "SMA-Informatika" THEN informatikaSMATemplates ELSE astronomiSMATemplates]

\* mutant: no fallback, `templates.length` of undefined throws
templateRuns_noFallback(lv, sb) ==
  LET key == registryKey(lv, sb)
  IN  IF key \notin DOMAIN templateRegistry
      THEN {}
      ELSE UNION { templateRegistry[key][i + 1] :
                     i \in randInt(0, Len(templateRegistry[key]) - 1) }

\* the template results generateQuestion can hand to buildQuestion
templateRuns(lv, sb) ==
  LET key == registryKey(lv, sb)
  IN  IF key \notin DOMAIN templateRegistry \/ Len(templateRegistry[key]) = 0
      THEN mathSMPTemplate0
      ELSE UNION { templateRegistry[key][i + 1] :
                     i \in randInt(0, Len(templateRegistry[key]) - 1) }

\* `${Date.now()}-${Math.random().toString(36).slice(2, 8)}`: never a row id
GeneratedId == "<time>-<random>"

NoImage == "undefined"

\* mutant: a generated question is given an image
buildQuestion_withImage(result, lv, sb) ==
  LET optsSet == IF result.isStringAnswer /\ Len(result.otherOptions) > 0
                 THEN makeOptionsStr(result.answerStr, result.otherOptions)
                 ELSE makeOptions(result.answerNum, result.spread)
  IN  { [id |-> GeneratedId, signature |-> result.signatureBase,
         subject |-> sb, level |-> lv,
         options |-> opts.options, correctIndex |-> opts.correctIndex,
         diagramType |-> result.diagramType, imageUrl |-> "https://img/0.png"] :
          opts \in optsSet }

buildQuestion(result, lv, sb) ==
  LET optsSet == IF result.isStringAnswer /\ Len(result.otherOptions) > 0
                 THEN makeOptionsStr(result.answerStr, result.otherOptions)
                 ELSE makeOptions(result.answerNum, result.spread)
  IN  { [id |-> GeneratedId, signature |-> result.signatureBase,
         subject |-> sb, level |-> lv,
         options |-> opts.options, correctIndex |-> opts.correctIndex,
         diagramType |-> result.diagramType, imageUrl |-> NoImage] :
          opts \in optsSet }

generateQuestion(lv, sb) ==
  UNION { buildQuestion(r, lv, sb) : r \in templateRuns(lv, sb) }

----------------------------------------------------------------------------
(* The stores behind supabaseClient: quiz_history and question_bank *)

Users == {"u1", "u2"}

\* rows of public.question_bank (001_handle_new_user.sql).  `options` is
\* JSONB: optionsIsArray = FALSE stands for a JSON value that is no array
bankRow1 ==
  [id |-> "qb-1", level |-> "SMA", subject |-> "Astronomi",
   optionsIsArray |-> TRUE, options |-> <<"Merkurius", "Venus", "Mars", "Bumi">>,
   answer |-> " venus", image_url |-> "https://img/1.png", is_active |-> TRUE]

bankRow2 ==
  [id |-> "qb-2", level |-> "SMA", subject |-> "Astronomi",
   optionsIsArray |-> TRUE, options |-> <<>>,
   answer |-> "Mars", image_url |-> "null", is_active |-> TRUE]

bankRow3 ==
  [id |-> "qb-3", level |-> "SMA", subject |-> "Astronomi",
   optionsIsArray |-> FALSE, options |-> <<>>,
   answer |-> "Mars", image_url |-> "null", is_active |-> TRUE]

bankRow4 ==
  [id |-> "qb-4", level |-> "SMP", subject |-> "Astronomi",
   optionsIsArray |-> TRUE, options |-> <<"Mars", "Venus", "Bumi">>,
   answer |-> "Pluto", image_url |-> "null", is_active |-> TRUE]

bankRow5 ==
  [id |-> "qb-5", level |-> "SMP", subject |-> "Astronomi",
   optionsIsArray |-> TRUE, options |-> <<"Merkurius", "Venus", "Mars", "Bumi">>,
   answer |-> "Mars", image_url |-> "https://img/5.png", is_active |-> TRUE]

\* a row an admin has disabled (soft delete)
bankRow6 ==
  [id |-> "qb-6", level |-> "SMA", subject |-> "Astronomi",
   optionsIsArray |-> TRUE, options |-> <<"Merkurius", "Venus", "Mars", "Bumi">>,
   answer |-> "Bumi", image_url |-> "null", is_active |-> FALSE]

\* the contents question_bank starts with
BankChoices ==
  { {bankRow4},
    {bankRow1, bankRow4, bankRow6},
    {bankRow1, bankRow2, bankRow3, bankRow4, bankRow6} }

astroSigs == { astronomiTopics[i].sig : i \in 1..Len(astronomiTopics) }

\* the signature sets user u1 may have answered before the call
SeenChoices ==
  { {},
    {"qb-1", "astro-Saturnus"},
    astroSigs \ {"astro-Jupiter", "astro-Saturnus"},
    (astroSigs \ {"astro-Jupiter"}) \cup {"qb-2"},
    astroSigs }

historyRows(user, sigs) ==
  { [user_id |-> user, question_signature |-> s, is_correct |-> TRUE] : s \in sigs }

\* the contents quiz_history starts with: u1's rows, and one row of u2
HistoryChoices ==
  { historyRows("u1", seen) \cup historyRows("u2", {"astro-Jupiter"}) : seen \in SeenChoices }

\* the stores a call for level SMP starts with.  ('SMP', 'Astronomi') has no
\* template list: the generator falls back to the triangle template
SmpBank == {bankRow1, bankRow5}

SmpHistory ==
  historyRows("u1", {"mat-tri-b5-h3"}) \cup historyRows("u2", {"astro-Jupiter"})

\* the history a demo-mode run starts with
DemoHistory == historyRows("u1", astroSigs) \cup historyRows("u2", {"astro-Jupiter"})

\* String.prototype.trim().toLowerCase() on the texts of the bank rows
trimLower(s) ==
  CASE s = " venus"    -> "venus"
    [] s = "Venus"     -> "venus"
    [] s = "Merkurius" -> "merkurius"
    [] s = "Mars"      -> "mars"
    [] s = "Bumi"      -> "bumi"
    [] s = "Pluto"     -> "pluto"
    [] OTHER           -> s

----------------------------------------------------------------------------
(* State *)

VARIABLES
  IS_DEMO_MODE,    \* supabaseClient: no Supabase URL or key configured
  quiz_history,    \* the history store
  question_bank,   \* the curated store
  now,             \* the last value Date.now() returned
  pc,              \* where the running call stands
  level, subject, count, userId,   \* arguments of the call
  usedSignatures,  \* fetchSmartSession: signatures of the user's history
  dbQuestions,     \* fetchSmartSession: the mapped curated rows
  path,            \* fetchSmartSession: the return statement the call takes
  historyRead,     \* what the history read gave: "rows", "error" or "throw"
  curatedRead,     \* what the curated query gave: "rows", "error" or "throw"
  session,         \* the value the call resolved with
  bcount, bused,   \* generateQuestionBatch: its count and usedSignatures
  questions, localSigs, maxAttempts, mastery,   \* generateQuestionBatch: locals
  dedupCalls,      \* calls of generateQuestion made by the dedup loop
  fillCalls,       \* calls of generateQuestion made by the fill loop
  tresult, gq,     \* generateQuestion: the template result and the question
  calls,           \* the fetchSmartSession calls in flight side by side, by user
  saved,           \* the rows saveQuizResult has inserted into the history store
  distractors,     \* makeOptions: the set `distractors`, in insertion order
  view,            \* App: the view shown
  currentUser,     \* App: the id of the profile logged in, or "null"
  currentStreak,   \* App: the streak shown
  totalSolved,     \* App: the answers counted
  examQuestions,   \* App: the signatures of `questions`, the session on screen
  currentQIndex,   \* App: the index of the question on screen, 0-based
  answers,         \* App: the answers of the session on screen
  showFeedback,    \* App: an answer was given and its feedback is shown
  loading,         \* App: a handleStartExam is awaiting its session
  timers,          \* the setTimeout callbacks of handleAnswer not yet run, oldest first
  fetches,         \* the sessions the pending handleStartExam calls will get
  logins,          \* the handleLogin calls awaiting signIn
  signingOut,      \* a handleLogout is awaiting signOut
  hash,            \* window.location.hash
  profiles,        \* current_streak of every profile in the store
  exams,           \* the number of handleStartExam calls so far
  saveCalls,       \* the saveQuizResult calls issued for the session on screen: how
                   \* many per user and signature
  streakCalls,     \* the updateStreak calls issued: how many, and the last one
  feedSub,         \* subscribeToQuizFeed: "none" before the call, "open" after it,
                   \* "closed" once the function it returned has been called
  feedTimer,       \* the demo feed: a setTimeout of scheduleNext is pending
  feedHandlers,    \* the live feed: INSERT handlers awaiting fetchProfileById
  feedCount        \* AdminDashboard: feedCount, one more per call of the callback

vars ==
  << IS_DEMO_MODE, quiz_history, question_bank, now, pc, level, subject, count,
     userId, usedSignatures, dbQuestions, path, historyRead, curatedRead,
     session, bcount, bused,
     questions, localSigs, maxAttempts, mastery, dedupCalls, fillCalls,
     tresult, gq, calls, saved, distractors,
     view, currentUser, currentStreak, totalSolved, examQuestions, currentQIndex,
     answers, showFeedback, loading, timers, fetches, logins, signingOut, hash,
     profiles, exams, saveCalls, streakCalls,
     feedSub, feedTimer, feedHandlers, feedCount >>

storeVars == << IS_DEMO_MODE, quiz_history, question_bank >>

argVars == << level, subject, count, userId >>

sessionVars == << usedSignatures, dbQuestions, path, historyRead, curatedRead, session >>

batchVars ==
  << bcount, bused, questions, localSigs, maxAttempts, mastery, dedupCalls, fillCalls >>

genVars == << tresult, gq, distractors >>

NoResult ==
  [answerNum |-> 0, answerStr |-> "", isStringAnswer |-> FALSE,
   otherOptions |-> <<>>, spread |-> 0, diagramType |-> "none",
   signatureBase |-> ""]

NoQuestion ==
  [id |-> "", signature |-> "", subject |-> "", level |-> "",
   options |-> <<>>, correctIndex |-> 0, diagramType |-> "none",
   imageUrl |-> NoImage]

NoSession == [questions |-> <<>>, mastery |-> FALSE]

\* the parts of the state a specification does not use
IdleStores ==
  /\ IS_DEMO_MODE = TRUE
  /\ quiz_history = {}
  /\ question_bank = {}

IdleSession ==
  /\ usedSignatures = {}
  /\ dbQuestions = <<>>
  /\ path = "none"
  /\ historyRead = "none"
  /\ curatedRead = "none"
  /\ session = NoSession

IdleBatch ==
  /\ bcount = 0
  /\ bused = {}
  /\ questions = <<>>
  /\ localSigs = {}
  /\ maxAttempts = 0
  /\ mastery = FALSE
  /\ dedupCalls = 0
  /\ fillCalls = 0

IdleGen ==
  /\ tresult = NoResult
  /\ gq = NoQuestion
  /\ distractors = <<>>

\* a call of fetchSmartSession that has not been made
NoCall ==
  [pc |-> "none", count |-> 0, usedSignatures |-> {}, dbQuestions |-> <<>>,
   bcount |-> 0, bused |-> {}, questions |-> <<>>, path |-> "none",
   historyRead |-> "none", curatedRead |-> "none", session |-> NoSession]

IdleCalls == calls = [u \in Users |-> NoCall]

\* the state of the app around the engine (App.tsx, supabaseClient)
quizVars ==
  << view, currentUser, currentStreak, totalSolved, examQuestions, currentQIndex,
     answers, showFeedback, loading, timers, fetches, logins, signingOut, hash,
     profiles, exams, saveCalls, streakCalls >>

\* the feed of the admin dashboard (subscribeToQuizFeed, AdminDashboard)
feedVars == << feedSub, feedTimer, feedHandlers, feedCount >>

appVars == << saved, quizVars, feedVars >>

\* the accounts of the model: two students and an admin (DEMO_USERS)
Accounts == Users \cup {"admin"}

roleOf(a) == IF a = "admin" THEN "admin" ELSE "student"

\* current_streak of the profiles when the app is loaded
InitialProfiles == [a \in Accounts |-> IF a = "u1" THEN 1 ELSE 0]

NoStreakCall == [n |-> 0, user_id |-> "null", streak |-> 0]

\* one more call in a record of calls by key
oneMore(log, key) ==
  IF key \in DOMAIN log THEN [log EXCEPT ![key] = @ + 1] ELSE log @@ (key :> 1)

\* useState(...) of App, and nothing in flight
IdleQuiz ==
  /\ view = "login"
  /\ currentUser = "null"
  /\ currentStreak = 0
  /\ totalSolved = 0
  /\ examQuestions = <<>>
  /\ currentQIndex = 0
  /\ answers = <<>>
  /\ showFeedback = FALSE
  /\ loading = FALSE
  /\ timers = <<>>
  /\ fetches = {}
  /\ logins = {}
  /\ signingOut = FALSE
  /\ hash = ""
  /\ profiles = InitialProfiles
  /\ exams = 0
  /\ saveCalls = << >>
  /\ streakCalls = NoStreakCall

\* AdminDashboard has not been mounted
IdleFeed ==
  /\ feedSub = "none"
  /\ feedTimer = FALSE
  /\ feedHandlers = 0
  /\ feedCount = 0

IdleApp ==
  /\ saved = {}
  /\ IdleQuiz
  /\ IdleFeed

----------------------------------------------------------------------------
(* generateQuestion as one call: specification SpecGen *)

InitGen ==
  /\ IdleStores /\ IdleSession /\ IdleBatch /\ IdleGen /\ IdleCalls /\ IdleApp
  /\ now = 0
  /\ pc = "generate"
  /\ level \in Levels
  /\ subject \in Subjects
  /\ count = 1
  /\ userId = "u1"

GenerateQuestion ==
  /\ pc = "generate"
  /\ \E r \in templateRuns(level, subject) :
       \E q \in buildQuestion(r, level, subject) :
         /\ tresult' = r
         /\ gq' = q
  /\ pc' = "generated"
  /\ UNCHANGED << storeVars, now, argVars, calls, appVars, sessionVars, batchVars, distractors >>

NextGen == GenerateQuestion

SpecGen == InitGen /\ [][NextGen]_vars

----------------------------------------------------------------------------
(* makeOptions, one iteration of its loop at a time: specification           *)
(* SpecOptions                                                               *)

\* the answers makeOptions is called with, in hundredths: a negative and a
\* zero discriminant, a wave length, small and half-integer areas, a product
OptionCorrects == {-1600, 0, 35, 100, 750, 1000}

\* `spread` as the templates pass it: left out (0), or 1 (the wave template)
OptionSpreads == {0, 1}

InitOptions ==
  /\ IdleStores /\ IdleSession /\ IdleBatch /\ IdleCalls /\ IdleApp
  /\ now = 0
  /\ pc = "options_loop"
  /\ level = "SMP"
  /\ subject = "Astronomi"
  /\ count = 1
  /\ userId = "u1"
  /\ \E c \in OptionCorrects, sp \in OptionSpreads :
       tresult = [NoResult EXCEPT !.answerNum = c, !.spread = sp]
  /\ gq = NoQuestion
  /\ distractors = <<>>

\* one iteration of `while (distractors.size < 3)`: a draw, and Set.add,
\* which leaves the set as it is when it holds d already
DrawDistractor ==
  /\ pc = "options_loop"
  /\ Len(distractors) < 3
  /\ \E offset \in randInt(-spreadOf(tresult.answerNum, tresult.spread),
                           spreadOf(tresult.answerNum, tresult.spread)) :
       LET d == distractorOf(tresult.answerNum, offset, Len(distractors))
       IN  distractors' = IF d # tresult.answerNum /\ d \notin Range(distractors)
                          THEN Append(distractors, d)
                          ELSE distractors
  /\ UNCHANGED << storeVars, now, pc, argVars, calls, appVars, sessionVars, batchVars,
                   tresult, gq >>

\* the loop is left: shuffle, render, indexOf
ReturnOptions ==
  /\ pc = "options_loop"
  /\ ~(Len(distractors) < 3)
  /\ \E sh \in shuffle(<< tresult.answerNum >> \o distractors) :
       gq' = [NoQuestion EXCEPT !.options = [i \in 1..Len(sh) |-> renderNumber(sh[i])],
                                !.correctIndex = indexOf(sh, tresult.answerNum)]
  /\ pc' = "options_done"
  /\ UNCHANGED << storeVars, now, argVars, calls, appVars, sessionVars, batchVars, tresult,
                   distractors >>

NextOptions ==
  \/ DrawDistractor
  \/ ReturnOptions

SpecOptions == InitOptions /\ [][NextOptions]_vars

\* Math.random() does not repeat a colliding draw for ever
SpecOptionsFair == SpecOptions /\ WF_vars(NextOptions)

----------------------------------------------------------------------------
(* hybridEngine.ts: mapDbRowToQuestion and the two store reads *)

\* row.options.findIndex(opt => opt.trim().toLowerCase() === row.answer.trim().toLowerCase())
findIndex(options, answer) ==
  IF \E i \in 1..Len(options) : trimLower(options[i]) = trimLower(answer)
  THEN (CHOOSE i \in 1..Len(options) :
          /\ trimLower(options[i]) = trimLower(answer)
          /\ \A k \in 1..(i - 1) : trimLower(options[k]) # trimLower(answer)) - 1
  ELSE -1

\* findIndex is no function of a JSON value that is not an array
mapThrows(row) == ~row.optionsIsArray

\* mutant: findIndex's -1 kept as the index
mapDbRowToQuestion_noFallback(row) ==
  [id |-> row.id, signature |-> row.id,
   subject |-> row.subject, level |-> row.level,
   options |-> row.options,
   correctIndex |-> findIndex(row.options, row.answer),
   diagramType |-> "none",
   imageUrl |-> IF row.image_url = "null" THEN NoImage ELSE row.image_url]

mapDbRowToQuestion(row) ==
  LET correctIndex == findIndex(row.options, row.answer)
  IN  [id |-> row.id, signature |-> row.id,
       subject |-> row.subject, level |-> row.level,
       options |-> row.options,
       correctIndex |-> IF correctIndex >= 0 THEN correctIndex ELSE 0,
       diagramType |-> "none",
       imageUrl |-> IF row.image_url = "null" THEN NoImage ELSE row.image_url]

\* mutant: the rows of every user
historyOf_everyUser(user) == quiz_history

\* fetchQuizHistory(userId) without a subject, when the query succeeds
historyOf(user) == { h \in quiz_history : h.user_id = user }

\* sequences without repetition of n elements of S
RECURSIVE arrangements(_, _)
arrangements(S, n) ==
  IF n = 0 THEN { <<>> }
  ELSE UNION { { <<x>> \o rest : rest \in arrangements(S \ {x}, n - 1) } : x \in S }

\* mutant: the select policy "Anyone can read active questions" is missing
queryQuestionBank_withoutPolicy(lv, sb, usedIds, limit) ==
  LET visible == { r \in question_bank :
                     /\ r.level = lv
                     /\ r.subject = sb
                     /\ r.id \notin usedIds }
  IN  arrangements(visible, Min(limit, Cardinality(visible)))

\* the rows the question_bank query can return: the select policy shows the
\* active rows, the filters are level, subject and id not in usedIds, and
\* limit(count) cuts the result
queryQuestionBank(lv, sb, usedIds, limit) ==
  LET visible == { r \in question_bank :
                     /\ r.is_active
                     /\ r.level = lv
                     /\ r.subject = sb
                     /\ r.id \notin usedIds }
  IN  arrangements(visible, Min(limit, Cardinality(visible)))

----------------------------------------------------------------------------
(* mapDbRowToQuestion as one call: specification SpecMap *)

\* a row's `options` array has at most MaxOptions texts
MaxOptions == 4

\* the texts of the options and of the answer of the mapped rows
MapTexts == {"Venus", " venus", "Mars"}

MapAnswers == {" venus", "Mars", "Pluto"}

RECURSIVE seqsUpTo(_, _)
seqsUpTo(S, n) ==
  IF n = 0 THEN { <<>> }
  ELSE LET shorter == seqsUpTo(S, n - 1)
       IN  shorter \cup { Append(a, x) : a \in { b \in shorter : Len(b) = n - 1 }, x \in S }

\* the rows handed to mapDbRowToQuestion: every array of MapTexts with every
\* answer, with and without an image, and one row whose options are no array
MapRows ==
  { [id |-> "qb-1", level |-> "SMA", subject |-> "Astronomi",
     optionsIsArray |-> TRUE, options |-> opts, answer |-> ans,
     image_url |-> img, is_active |-> TRUE] :
      opts \in seqsUpTo(MapTexts, MaxOptions), ans \in MapAnswers,
      img \in {"null", "https://img/1.png"} }
  \cup {bankRow3}

InitMap ==
  /\ IS_DEMO_MODE = FALSE
  /\ quiz_history = {}
  /\ question_bank \in { {row} : row \in MapRows }
  /\ IdleSession /\ IdleBatch /\ IdleGen /\ IdleCalls /\ IdleApp
  /\ now = 0
  /\ pc = "map"
  /\ level = "SMA"
  /\ subject = "Astronomi"
  /\ count = 1
  /\ userId = "u1"

\* mapDbRowToQuestion(row) returns a question or throws a TypeError
MapRow ==
  /\ pc = "map"
  /\ \E row \in question_bank :
       IF mapThrows(row)
       THEN /\ pc' = "map_threw"
            /\ UNCHANGED gq
       ELSE /\ pc' = "mapped"
            /\ gq' = mapDbRowToQuestion(row)
  /\ UNCHANGED << storeVars, now, argVars, calls, appVars, sessionVars, batchVars,
                   tresult, distractors >>

NextMap == MapRow

SpecMap == InitMap /\ [][NextMap]_vars

----------------------------------------------------------------------------
(* generateQuestionBatch: specifications SpecBatch and Spec *)

\* What the batch and the session keep of a question: `options` by its length
\* and `correctIndex` by whether it indexes `options`
entry(q) ==
  [id |-> q.id, signature |-> q.signature, subject |-> q.subject,
   level |-> q.level, nOptions |-> Len(q.options),
   indexValid |-> q.correctIndex \in 0..(Len(q.options) - 1),
   diagramType |-> q.diagramType, imageUrl |-> q.imageUrl]

\* the entries of the questions generateQuestion can return, by level and subject
entryTable ==
  UNION { { <<k[1], k[2], entry(q)>> : q \in generateQuestion(k[1], k[2]) } :
            k \in Levels \X Subjects }

\* the entries of the questions generateQuestion(lv, sb) can return
generatedEntries(lv, sb) ==
  { t[3] : t \in { u \in entryTable : u[1] = lv /\ u[2] = sb } }

\* mutant: the filler keeps the signature of its template
dupSignature_noSuffix(sig, t) == sig

\* `${q.signature}-dup-${Date.now()}`
dupSignature(sig, t) == sig \o "-dup-" \o ToString(t)

RetryFactor == 50

\* mutant: the dedup test left out
unseen_noTest(sigs, q) == TRUE

\* `!localSigs.has(q.signature)`
unseen(sigs, q) == q.signature \notin sigs

\* mutant: off by one, a batch one question short is not filled
exhausted_offByOne(qs, cnt) == Len(qs) + 1 < cnt

\* `if (questions.length < count)` after the dedup loop
exhausted(qs, cnt) == Len(qs) < cnt

\* `return { questions, mastery }` of generateQuestionBatch, and what its
\* caller does with it in the same turn: fetchSmartSession returns it as it
\* is (demo mode, query error, catch block) or merges and shuffles (line 148)
Resume(p, db, qs, m) ==
  /\ CASE p = "normal" ->
            \E combined \in shuffle(db \o qs) :
              session' = [questions |-> combined, mastery |-> m]
       [] OTHER ->
            session' = [questions |-> qs, mastery |-> m]
  /\ pc' = IF p = "none" THEN "batch_done" ELSE "done"

\* a call counter when the batch returns: a direct call of
\* generateQuestionBatch (p = "none") keeps it, fetchSmartSession drops it
\* with the rest of the batch's frame
callsAtReturn(p, n) == IF p = "none" THEN n ELSE 0

\* mutant: the attempt is not counted
afterAttempt_noDecrement(attempts) == attempts

\* `maxAttempts--`
afterAttempt(attempts) == attempts - 1

\* the call generateQuestionBatch(level, subject, cnt, used) from the return
\* statement p: lines 451-454 and the first test of the while loop
EnterBatch(p, db, cnt, used) ==
  /\ bcount' = cnt
  /\ bused' = used
  /\ questions' = <<>>
  /\ mastery' = FALSE
  /\ dedupCalls' = 0
  /\ fillCalls' = 0
  /\ IF 0 < cnt /\ cnt * RetryFactor > 0
     THEN /\ localSigs' = used
          /\ maxAttempts' = cnt * RetryFactor
          /\ pc' = "batch_loop"
          /\ UNCHANGED session
     ELSE /\ localSigs' = {}
          /\ maxAttempts' = 0
          /\ Resume(p, db, <<>>, FALSE)

\* one iteration of `while (questions.length < count && maxAttempts > 0)`;
\* the iteration that ends the loop runs on to the fill loop or to the return
BatchAttempt ==
  /\ pc = "batch_loop"
  /\ Len(questions) < bcount /\ maxAttempts > 0
  /\ \E q \in generatedEntries(level, subject) :
       LET fresh == unseen(localSigs, q)
           qs == IF fresh THEN Append(questions, q) ELSE questions
           sigs == IF fresh THEN localSigs \cup {q.signature} ELSE localSigs
           attempts == afterAttempt(maxAttempts)
       IN  /\ questions' = qs
           /\ IF Len(qs) < bcount /\ attempts > 0
              THEN /\ localSigs' = sigs
                   /\ maxAttempts' = attempts
                   /\ dedupCalls' = dedupCalls + 1
                   /\ pc' = "batch_loop"
                   /\ UNCHANGED session
              ELSE IF exhausted(qs, bcount)
              THEN /\ localSigs' = sigs
                   /\ maxAttempts' = attempts
                   /\ dedupCalls' = dedupCalls + 1
                   /\ pc' = "batch_fill"
                   /\ UNCHANGED session
              ELSE /\ localSigs' = {}
                   /\ maxAttempts' = 0
                   /\ dedupCalls' = callsAtReturn(path, dedupCalls + 1)
                   /\ Resume(path, dbQuestions, qs, mastery)
  /\ UNCHANGED << storeVars, now, argVars, calls, appVars, usedSignatures, dbQuestions, path,
                   historyRead, curatedRead, bcount, bused, mastery, fillCalls,
                   genVars >>

\* `if (questions.length < count) { mastery = true; while (...) {...} }`:
\* one iteration of the fill loop; the last one runs on to the return
BatchFill ==
  /\ pc = "batch_fill"
  /\ Len(questions) < bcount
  /\ mastery' = TRUE
  /\ \E q \in generatedEntries(level, subject) :
       \E t \in now..MaxClock :
         LET qs == Append(questions, [q EXCEPT !.signature = dupSignature(q.signature, t)])
         IN  /\ now' = t
             /\ questions' = qs
             /\ IF Len(qs) < bcount
                THEN /\ pc' = "batch_fill"
                     /\ fillCalls' = fillCalls + 1
                     /\ UNCHANGED << localSigs, maxAttempts, dedupCalls, session >>
                ELSE /\ localSigs' = {}
                     /\ maxAttempts' = 0
                     /\ dedupCalls' = callsAtReturn(path, dedupCalls)
                     /\ fillCalls' = callsAtReturn(path, fillCalls + 1)
                     /\ Resume(path, dbQuestions, qs, TRUE)
  /\ UNCHANGED << storeVars, argVars, calls, appVars, usedSignatures, dbQuestions, path,
                   historyRead, curatedRead, bcount, bused, genVars >>

\* SpecBatch: generateQuestionBatch called on its own
BatchExclusions ==
  { {},
    {"astro-Jupiter"},
    astroSigs \ {"astro-Jupiter", "astro-Saturnus"},
    astroSigs \ {"astro-Jupiter"},
    astroSigs }

InitBatch ==
  /\ IdleStores /\ IdleBatch /\ IdleGen /\ IdleCalls /\ IdleApp
  /\ now = 0
  /\ level = "SMA"
  /\ subject = "Astronomi"
  /\ count \in 0..MaxCount
  /\ userId = "u1"
  /\ usedSignatures \in BatchExclusions
  /\ dbQuestions = <<>>
  /\ path = "none"
  /\ historyRead = "none"
  /\ curatedRead = "none"
  /\ session = NoSession
  /\ pc = "batch_call"

CallBatch ==
  /\ pc = "batch_call"
  /\ EnterBatch("none", <<>>, count, usedSignatures)
  /\ UNCHANGED << storeVars, now, argVars, calls, appVars, usedSignatures, dbQuestions, path,
                   historyRead, curatedRead, genVars >>

NextBatch == CallBatch \/ BatchAttempt \/ BatchFill

SpecBatch == InitBatch /\ [][NextBatch]_vars

\* generateQuestionBatch is synchronous: once called it runs on while it can
SpecBatchFair == SpecBatch /\ WF_vars(NextBatch)

----------------------------------------------------------------------------
(* fetchSmartSession: specification Spec *)

\* mutant: the curated questions are not subtracted
remainingNeeded_noSubtraction(cnt, db) == cnt

\* mutant: one question more than is missing
remainingNeeded_offByOne(cnt, db) == cnt - Len(db) + 1

\* `count - dbQuestions.length`
remainingNeeded(cnt, db) == cnt - Len(db)

\* mutant: `new Set()` in place of `new Set(usedSignatures)`
allUsedSigs_withoutHistory(used, db) == { db[i].signature : i \in 1..Len(db) }

\* `new Set(usedSignatures)` with the signatures of the curated questions added
allUsedSigs(used, db) == used \cup { db[i].signature : i \in 1..Len(db) }

\* mutant: the exclusions of the caller in place of the default
defaultUsedSignatures_ofCaller == usedSignatures

\* `usedSignatures: Set<string> = new Set()`: the parameter left out
defaultUsedSignatures == {}

\* fetchSmartSession(level, subject, count, userId) up to its first await
\* mutant: demo mode takes the path of the stores
StartSession_demoReadsStores ==
  /\ pc = "start"
  /\ pc' = "await_history"
  /\ UNCHANGED << path, batchVars, session >>
  /\ UNCHANGED << storeVars, now, argVars, calls, appVars, usedSignatures, dbQuestions,
                   historyRead, curatedRead, genVars >>

\* fetchSmartSession up to its first await, or in demo mode up to the batch
StartSession ==
  /\ pc = "start"
  /\ IF IS_DEMO_MODE
     THEN /\ path' = "demo"
          /\ EnterBatch("demo", <<>>, count, defaultUsedSignatures)
     ELSE /\ pc' = "await_history"
          /\ UNCHANGED << path, batchVars, session >>
  /\ UNCHANGED << storeVars, now, argVars, calls, appVars, usedSignatures, dbQuestions,
                   historyRead, curatedRead, genVars >>

\* mutant: the catch block returns an empty session
CatchBlock_emptySession ==
  /\ path' = "catch"
  /\ UNCHANGED batchVars
  /\ Resume("catch", <<>>, <<>>, FALSE)

\* the catch block: generateQuestionBatch(level, subject, count)
CatchBlock ==
  /\ path' = "catch"
  /\ EnterBatch("catch", <<>>, count, defaultUsedSignatures)

\* mutant: the read leaves a row behind
selectQuizHistory_writes == quiz_history' = quiz_history \cup historyRows(userId, {"qb-1"})

\* `supabase.from('quiz_history').select('*')`: a select writes no row
selectQuizHistory == UNCHANGED quiz_history

\* `await fetchQuizHistory(userId)` resolves or rejects, and the call runs on
\* to the await of the question_bank query
HistoryRead ==
  /\ pc = "await_history"
  /\ \E outcome \in {"rows", "error", "throw"} :
       /\ historyRead' = outcome
       /\ CASE outcome = "rows" ->
                 /\ usedSignatures' = { h.question_signature : h \in historyOf(userId) }
                 /\ pc' = "await_curated"
                 /\ UNCHANGED << path, batchVars, session >>
            [] outcome = "error" ->
                 /\ usedSignatures' = {}
                 /\ pc' = "await_curated"
                 /\ UNCHANGED << path, batchVars, session >>
            [] outcome = "throw" ->
                 /\ CatchBlock
                 /\ UNCHANGED usedSignatures
  /\ selectQuizHistory
  /\ UNCHANGED << IS_DEMO_MODE, question_bank, now, argVars, calls, appVars, dbQuestions, curatedRead,
                   genVars >>

\* `await query` resolves or rejects, and the call runs on to the generator
\* or, with enough curated rows, to its return
CuratedRead ==
  /\ pc = "await_curated"
  /\ \E outcome \in {"rows", "error", "throw"} :
       /\ curatedRead' = outcome
       /\ CASE outcome = "error" ->
                 /\ path' = "error"
                 /\ EnterBatch("error", <<>>, count, usedSignatures)
                 /\ UNCHANGED dbQuestions
            [] outcome = "throw" ->
                 /\ CatchBlock
                 /\ UNCHANGED dbQuestions
            [] outcome = "rows" ->
                 \E dbRows \in queryQuestionBank(level, subject, usedSignatures, count) :
                   IF \E i \in 1..Len(dbRows) : mapThrows(dbRows[i])
                   THEN /\ CatchBlock
                        /\ UNCHANGED dbQuestions
                   ELSE LET mapped == [i \in 1..Len(dbRows) |-> entry(mapDbRowToQuestion(dbRows[i]))]
                        IN  /\ dbQuestions' = mapped
                            /\ path' = "normal"
                            /\ IF remainingNeeded(count, mapped) > 0
                               THEN EnterBatch("normal", mapped, remainingNeeded(count, mapped),
                                               allUsedSigs(usedSignatures, mapped))
                               ELSE /\ Resume("normal", mapped, <<>>, FALSE)
                                    /\ UNCHANGED batchVars
  /\ UNCHANGED << storeVars, now, argVars, calls, appVars, usedSignatures, historyRead, genVars >>

Init ==
  /\ level \in Levels
  /\ IF level = "SMA"
     THEN /\ IS_DEMO_MODE \in BOOLEAN
          /\ quiz_history \in HistoryChoices
          /\ IS_DEMO_MODE => quiz_history = DemoHistory
          /\ question_bank \in BankChoices
     ELSE /\ IS_DEMO_MODE = FALSE
          /\ quiz_history = SmpHistory
          /\ question_bank = SmpBank
  /\ now = 0
  /\ pc = "start"
  /\ subject = "Astronomi"
  /\ count \in 0..MaxCount
  /\ userId = "u1"
  /\ IdleSession /\ IdleBatch /\ IdleGen /\ IdleCalls /\ IdleApp

Next ==
  \/ StartSession
  \/ HistoryRead
  \/ CuratedRead
  \/ BatchAttempt
  \/ BatchFill

Spec == Init /\ [][Next]_vars

----------------------------------------------------------------------------
(* generateQuestionBatch run from call to return.  It awaits nothing, so    *)
(* between two awaits of its caller it is one step                          *)

\* one iteration of the dedup loop on every frame [qs, sigs] it can run on
dedupStep(running, lv, sb) ==
  { IF unseen(f.sigs, q)
    THEN [qs |-> Append(f.qs, q), sigs |-> f.sigs \cup {q.signature}]
    ELSE f : f \in running, q \in generatedEntries(lv, sb) }

\* `while (questions.length < count && maxAttempts > 0)`: the frames the loop
\* can end with.  `running` are the frames it is still in with `attempts`
\* left, `ended` those it has left.  When an iteration changes neither set,
\* the iterations that remain do not either, and they are skipped
RECURSIVE dedupLoop(_, _, _, _, _, _)
dedupLoop(running, ended, attempts, cnt, lv, sb) ==
  IF running = {} \/ ~(attempts > 0) THEN ended \cup running
  ELSE LET after == dedupStep(running, lv, sb)
           still == { f \in after : Len(f.qs) < cnt }
           left  == ended \cup (after \ still)
       IN  IF still = running /\ left = ended
           THEN ended \cup running
           ELSE dedupLoop(still, left, afterAttempt(attempts), cnt, lv, sb)

\* the fill loop: the batches it can end with and the clock after it
RECURSIVE fillLoop(_, _, _, _, _)
fillLoop(qs, cnt, clock, lv, sb) ==
  IF ~(Len(qs) < cnt) THEN { [questions |-> qs, mastery |-> TRUE, now |-> clock] }
  ELSE UNION { fillLoop(Append(qs, [q EXCEPT !.signature = dupSignature(q.signature, t)]),
                        cnt, t, lv, sb) :
                 q \in generatedEntries(lv, sb), t \in clock..MaxClock }

\* generateQuestionBatch(lv, sb, cnt, used) called when the clock shows
\* `clock`: the values it can return, with the clock at the return
batchOutcomes(lv, sb, cnt, used, clock) ==
  LET first == [qs |-> <<>>, sigs |-> used]
      enters == 0 < cnt /\ cnt * RetryFactor > 0
      frames == IF enters THEN dedupLoop({first}, {}, cnt * RetryFactor, cnt, lv, sb)
                ELSE {first}
  IN  UNION { IF exhausted(f.qs, cnt)
              THEN fillLoop(f.qs, cnt, clock, lv, sb)
              ELSE { [questions |-> f.qs, mastery |-> FALSE, now |-> clock] } :
                f \in frames }

----------------------------------------------------------------------------
(* fetchSmartSession called for two users side by side: specification       *)
(* SpecPair.  A call gives way to the other one at its awaits only          *)

\* the call c returns from the return statement p what the batch for cnt
\* questions without `used` gives, merged with db on the normal path: the
\* records of the call at its return, each with the clock at that time
returnsOf(c, p, db, cnt, used, clock) ==
  UNION { { << [c EXCEPT !.path = p, !.pc = "done", !.bcount = cnt, !.bused = used,
                         !.questions = o.questions,
                         !.session = [questions |-> combined, mastery |-> o.mastery]],
               o.now >> :
              combined \in IF p = "normal" THEN shuffle(db \o o.questions)
                                           ELSE {o.questions} } :
            o \in batchOutcomes(level, subject, cnt, used, clock) }

\* the catch block of the call c
catchOf(c, clock) == returnsOf(c, "catch", <<>>, c.count, defaultUsedSignatures, clock)

\* the call of user u up to its first await
PairStart(u) ==
  /\ calls[u].pc = "start"
  /\ IF IS_DEMO_MODE
     THEN \E r \in returnsOf(calls[u], "demo", <<>>, calls[u].count,
                              defaultUsedSignatures, now) :
            /\ calls' = [calls EXCEPT ![u] = r[1]]
            /\ now' = r[2]
     ELSE /\ calls' = [calls EXCEPT ![u].pc = "await_history"]
          /\ UNCHANGED now
  /\ UNCHANGED << storeVars, pc, argVars, appVars, sessionVars, batchVars, genVars >>

\* `await fetchQuizHistory(userId)` of the call of user u resolves or rejects
PairHistoryRead(u) ==
  /\ calls[u].pc = "await_history"
  /\ \E outcome \in {"rows", "error", "throw"} :
       LET c == [calls[u] EXCEPT !.historyRead = outcome]
       IN  CASE outcome = "rows" ->
                  /\ calls' = [calls EXCEPT ![u] =
                        [c EXCEPT !.usedSignatures =
                                     { h.question_signature : h \in historyOf(u) },
                                  !.pc = "await_curated"]]
                  /\ UNCHANGED now
             [] outcome = "error" ->
                  /\ calls' = [calls EXCEPT ![u] =
                        [c EXCEPT !.usedSignatures = {}, !.pc = "await_curated"]]
                  /\ UNCHANGED now
             [] outcome = "throw" ->
                  \E r \in catchOf(c, now) :
                    /\ calls' = [calls EXCEPT ![u] = r[1]]
                    /\ now' = r[2]
  /\ selectQuizHistory
  /\ UNCHANGED << IS_DEMO_MODE, question_bank, pc, argVars, appVars, sessionVars, batchVars,
                   genVars >>

\* `await query` of the call of user u resolves or rejects, and the call runs
\* on to its return
PairCuratedRead(u) ==
  /\ calls[u].pc = "await_curated"
  /\ \E outcome \in {"rows", "error", "throw"} :
       LET c == [calls[u] EXCEPT !.curatedRead = outcome]
           returns ==
             CASE outcome = "error" ->
                    returnsOf(c, "error", <<>>, c.count, c.usedSignatures, now)
               [] outcome = "throw" -> catchOf(c, now)
               [] outcome = "rows" ->
                    UNION { IF \E i \in 1..Len(dbRows) : mapThrows(dbRows[i])
                            THEN catchOf(c, now)
                            ELSE LET mapped == [i \in 1..Len(dbRows) |->
                                                  entry(mapDbRowToQuestion(dbRows[i]))]
                                     d == [c EXCEPT !.dbQuestions = mapped]
                                 IN  IF remainingNeeded(c.count, mapped) > 0
                                     THEN returnsOf(d, "normal", mapped,
                                                    remainingNeeded(c.count, mapped),
                                                    allUsedSigs(c.usedSignatures, mapped),
                                                    now)
                                     ELSE { << [d EXCEPT !.path = "normal", !.pc = "done",
                                                  !.session = [questions |-> combined,
                                                               mastery |-> FALSE]],
                                               now >> :
                                              combined \in shuffle(mapped) } :
                              dbRows \in queryQuestionBank(level, subject,
                                                           c.usedSignatures, c.count) }
       IN  \E r \in returns :
             /\ calls' = [calls EXCEPT ![u] = r[1]]
             /\ now' = r[2]
  /\ UNCHANGED << storeVars, pc, argVars, appVars, sessionVars, batchVars, genVars >>

\* the histories the two users start with: they differ
PairHistories ==
  { historyRows("u1", seen) \cup historyRows("u2", {"astro-Jupiter"}) :
      seen \in { {"qb-1", "astro-Saturnus"}, (astroSigs \ {"astro-Jupiter"}) \cup {"qb-2"} } }

\* the number of questions each of the two calls asks for
PairCount == [u \in Users |-> IF u = "u1" THEN 1 ELSE 2]

InitPair ==
  /\ IS_DEMO_MODE = FALSE
  /\ quiz_history \in PairHistories
  /\ question_bank \in BankChoices
  /\ now = 0
  /\ pc = "pair"
  /\ level = "SMA"
  /\ subject = "Astronomi"
  /\ count = 0
  /\ userId = "u1"
  /\ IdleSession /\ IdleBatch /\ IdleGen /\ IdleApp
  /\ calls = [u \in Users |-> [NoCall EXCEPT !.pc = "start", !.count = PairCount[u]]]

NextPair ==
  \E u \in Users : PairStart(u) \/ PairHistoryRead(u) \/ PairCuratedRead(u)

SpecPair == InitPair /\ [][NextPair]_vars

----------------------------------------------------------------------------
(* saveQuizResult, and the sessions fetched after it *)

\* the signatures of the questions a user answers: a generated question, a
\* curated one, and a mastery filler
SavedSignatures == {"astro-Jupiter", "qb-1", dupSignature("astro-Jupiter", 0)}

\* the answers saved: u1's, right or wrong, and one of another user
SavedAnswers ==
  ({"u1"} \X SavedSignatures \X BOOLEAN) \cup {<< "u2", "astro-Jupiter", TRUE >>}

\* mutant: the row is stored under the subject, not the signature
savedRow_subjectAsSignature(user, sig, isCorrect) ==
  [user_id |-> user, question_signature |-> subject, is_correct |-> isCorrect]

\* the row of `insert({ user_id, subject, question_signature, is_correct })`
\* and of `demoQuizHistory.push({...})`
savedRow(user, sig, isCorrect) ==
  [user_id |-> user, question_signature |-> sig, is_correct |-> isCorrect]

\* saveQuizResult(userId, subject, signature, isCorrect), as handleAnswer
\* calls it for the question just answered; both branches add one row
SaveQuizResult ==
  /\ pc = "idle"
  /\ pc' = "answered"
  /\ \E a \in SavedAnswers :
       /\ quiz_history' = quiz_history \cup {savedRow(a[1], a[2], a[3])}
       /\ saved' = saved \cup {[user_id |-> a[1], question_signature |-> a[2]]}
  /\ UNCHANGED << IS_DEMO_MODE, question_bank, now, argVars, calls, quizVars, feedVars,
                   sessionVars, batchVars, genVars >>

\* handleStartExam: `await fetchSmartSession(userLevel, subject, 5, userId)`,
\* a call made after the answer was saved
CallFetchSmartSession ==
  /\ pc = "answered"
  /\ pc' = "start"
  /\ UNCHANGED << storeVars, now, argVars, calls, appVars, sessionVars, batchVars, genVars >>

SavedHistories ==
  { historyRows("u1", seen) \cup historyRows("u2", {"astro-Saturnus"}) :
      seen \in { {}, astroSigs \ {"astro-Jupiter", "astro-Saturnus"} } }

InitSaved ==
  /\ IS_DEMO_MODE = FALSE
  /\ quiz_history \in SavedHistories
  /\ question_bank = {bankRow1, bankRow4, bankRow6}
  /\ now = 0
  /\ pc = "idle"
  /\ level = "SMA"
  /\ subject = "Astronomi"
  /\ count \in 1..MaxCount
  /\ userId = "u1"
  /\ IdleSession /\ IdleBatch /\ IdleGen /\ IdleCalls /\ IdleApp

NextSaved ==
  \/ SaveQuizResult
  \/ CallFetchSmartSession
  \/ StartSession
  \/ HistoryRead
  \/ CuratedRead
  \/ BatchAttempt
  \/ BatchFill

SpecSaved == InitSaved /\ [][NextSaved]_vars

----------------------------------------------------------------------------
(* App.tsx and LoginPage.tsx: login, logout, the views and the quiz flow:   *)
(* specification SpecApp.  A handler runs to its end or to its await; the   *)
(* render that follows it is over before the next event is handled         *)

\* handleStartExam is called at most MaxExams times
MaxExams == 2

\* questions.length of a session
ExamLength == 2

\* the streaks of the model stay within 0..MaxStreak
MaxStreak == 3

engineVars ==
  << storeVars, now, pc, argVars, calls, saved, sessionVars, batchVars, genVars >>

\* the accounts the login form is submitted with
LoginAccounts == {"u1", "admin"}

\* the signatures of the session the e-th handleStartExam gets
examSignatures(e) ==
  [i \in 1..ExamLength |-> "exam" \o ToString(e) \o "-q" \o ToString(i - 1)]

\* `roleMode === 'admin' && result.user.role !== 'admin'`
accessDenied(form, role) == form = "admin" /\ role # "admin"

\* `profile.role === 'admin' ? 'admin' : 'onboarding'`
viewOfRole(role) == IF role = "admin" THEN "admin" ELSE "onboarding"

\* mutant: the hash alone opens the admin view
checkHashAllows_anyone(user) == TRUE

\* `currentUser?.role === 'admin'` of checkHash
checkHashAllows(user) == user # "null" /\ roleOf(user) = "admin"

\* mutant: a wrong answer leaves the streak as it is
streakAfter_keptOnWrong(streak, isCorrect) == IF isCorrect THEN streak + 1 ELSE streak

\* `currentStreak + 1` after a correct answer, 0 after a wrong one
streakAfter(streak, isCorrect) == IF isCorrect THEN streak + 1 ELSE 0

\* mutant: a wrong feed item subtracts 1 without a floor
feedStreak_noFloor(streak, isCorrect) == IF isCorrect THEN streak + 1 ELSE streak - 1

\* `user.current_streak += 1` or `Math.max(0, user.current_streak - 1)`
feedStreak(streak, isCorrect) == IF isCorrect THEN streak + 1 ELSE Max(0, streak - 1)

\* ExamView has a question to show: questions[currentQIndex] is defined
rendered == view = "exam" => currentQIndex < Len(examQuestions)

\* handleLogout after its await
afterSignOut ==
  /\ currentUser' = "null"
  /\ view' = "login"
  /\ currentStreak' = 0
  /\ totalSolved' = 0
  /\ hash' = ""

\* handleLogin up to `await signIn(email.trim(), password)`; the submit
\* button is disabled while a login is under way
HandleLogin ==
  /\ view = "login"
  /\ logins = {}
  /\ \E form \in {"student", "admin"}, a \in LoginAccounts :
       logins' = logins \cup {[roleMode |-> form, account |-> a]}
  /\ UNCHANGED << engineVars, feedVars, view, currentUser, currentStreak, totalSolved,
                   examQuestions, currentQIndex, answers, showFeedback, loading,
                   timers, fetches, signingOut, hash, profiles, exams, saveCalls,
                   streakCalls >>

\* signIn resolves with the profile: the admin form signs a non-admin out
\* again and returns, any other login runs onLoginSuccess = handleLoginSuccess
SignInResolves ==
  /\ \E l \in logins :
       /\ logins' = logins \ {l}
       /\ IF accessDenied(l.roleMode, roleOf(l.account))
          THEN UNCHANGED << currentUser, currentStreak, view >>
          ELSE /\ currentUser' = l.account
               /\ currentStreak' = profiles[l.account]
               /\ view' = viewOfRole(roleOf(l.account))
  /\ UNCHANGED << engineVars, feedVars, totalSolved, examQuestions, currentQIndex, answers,
                   showFeedback, loading, timers, fetches, signingOut, hash, profiles,
                   exams, saveCalls, streakCalls >>

\* handleLogout: `await signOut()`, which in demo mode is over before any
\* other event, then the five assignments
HandleLogout ==
  /\ view \in {"onboarding", "admin"}
  /\ currentUser # "null"
  /\ ~signingOut
  /\ IF IS_DEMO_MODE
     THEN /\ afterSignOut
          /\ UNCHANGED signingOut
     ELSE /\ signingOut' = TRUE
          /\ UNCHANGED << currentUser, view, currentStreak, totalSolved, hash >>
  /\ UNCHANGED << engineVars, feedVars, examQuestions, currentQIndex, answers, showFeedback,
                   loading, timers, fetches, logins, profiles, exams, saveCalls,
                   streakCalls >>

\* supabase.auth.signOut() resolves and handleLogout runs on
SignOutResolves ==
  /\ signingOut
  /\ signingOut' = FALSE
  /\ afterSignOut
  /\ UNCHANGED << engineVars, feedVars, examQuestions, currentQIndex, answers, showFeedback,
                   loading, timers, fetches, logins, profiles, exams, saveCalls,
                   streakCalls >>

\* handleSelectLevel
HandleSelectLevel ==
  /\ view = "onboarding"
  /\ currentUser # "null"
  /\ view' = "dashboard"
  /\ UNCHANGED << engineVars, feedVars, currentUser, currentStreak, totalSolved, examQuestions,
                   currentQIndex, answers, showFeedback, loading, timers, fetches,
                   logins, signingOut, hash, profiles, exams, saveCalls, streakCalls >>

\* onBack of DashboardView, ExamView and ResultsView
HandleBack ==
  /\ rendered
  /\ \/ view = "dashboard" /\ currentUser # "null" /\ view' = "onboarding"
     \/ view \in {"exam", "results"} /\ view' = "dashboard"
  /\ UNCHANGED << engineVars, feedVars, currentUser, currentStreak, totalSolved, examQuestions,
                   currentQIndex, answers, showFeedback, loading, timers, fetches,
                   logins, signingOut, hash, profiles, exams, saveCalls, streakCalls >>

\* handleStartExam, from the dashboard (buttons disabled while loading) or
\* from Retry on the results view.  In demo mode fetchSmartSession resolves
\* before any other event, so the call runs to its end
HandleStartExam ==
  /\ \/ view = "dashboard" /\ currentUser # "null" /\ ~loading
     \/ view = "results"
  /\ exams < MaxExams
  /\ exams' = exams + 1
  /\ currentQIndex' = 0
  /\ answers' = <<>>
  /\ showFeedback' = FALSE
  /\ IF IS_DEMO_MODE
     THEN /\ examQuestions' = examSignatures(exams + 1)
          /\ saveCalls' = << >>
          /\ view' = "exam"
          /\ loading' = FALSE
          /\ UNCHANGED fetches
     ELSE /\ loading' = TRUE
          /\ fetches' = fetches \cup {exams + 1}
          /\ UNCHANGED << examQuestions, saveCalls, view >>
  /\ UNCHANGED << engineVars, feedVars, currentUser, currentStreak, totalSolved, timers, logins,
                   signingOut, hash, profiles, streakCalls >>

\* `await fetchSmartSession(...)` of a handleStartExam resolves
FetchResolves ==
  /\ \E e \in fetches :
       /\ fetches' = fetches \ {e}
       /\ examQuestions' = examSignatures(e)
  /\ saveCalls' = << >>
  /\ view' = "exam"
  /\ loading' = FALSE
  /\ UNCHANGED << engineVars, feedVars, currentUser, currentStreak, totalSolved, currentQIndex,
                   answers, showFeedback, timers, logins, signingOut, hash, profiles,
                   exams, streakCalls >>

\* handleAnswer(optionIndex): the option buttons are disabled and the handler
\* returns while showFeedback is set; a click is handled after the render of
\* the click before it
HandleAnswer ==
  /\ view = "exam"
  /\ rendered
  /\ examQuestions # <<>>
  /\ ~showFeedback
  /\ \E isCorrect \in BOOLEAN :
       LET newStreak == streakAfter(currentStreak, isCorrect)
       IN  /\ newStreak <= MaxStreak
           /\ showFeedback' = TRUE
           /\ answers' = Append(answers, [questionIndex |-> currentQIndex,
                                          isCorrect |-> isCorrect])
           /\ currentStreak' = newStreak
           /\ totalSolved' = totalSolved + 1
           /\ IF currentUser # "null"
              THEN /\ saveCalls' = oneMore(saveCalls,
                                           << currentUser, examQuestions[currentQIndex + 1] >>)
                   /\ streakCalls' = [n |-> streakCalls.n + 1, user_id |-> currentUser,
                                      streak |-> newStreak]
                   /\ profiles' = [profiles EXCEPT ![currentUser] = newStreak]
              ELSE UNCHANGED << saveCalls, streakCalls, profiles >>
  /\ timers' = Append(timers, [currentQIndex |-> currentQIndex,
                               length |-> Len(examQuestions)])
  /\ UNCHANGED << engineVars, feedVars, view, currentUser, examQuestions, currentQIndex, loading,
                   fetches, logins, signingOut, hash, exams >>

\* the callback of `setTimeout(..., 1500)` runs, with the currentQIndex and
\* the questions of the render that made it; equal delays run oldest first
TimerFires ==
  /\ timers # <<>>
  /\ timers' = Tail(timers)
  /\ IF Head(timers).currentQIndex < Head(timers).length - 1
     THEN /\ currentQIndex' = currentQIndex + 1
          /\ showFeedback' = FALSE
          /\ UNCHANGED view
     ELSE /\ view' = "results"
          /\ UNCHANGED << currentQIndex, showFeedback >>
  /\ UNCHANGED << engineVars, feedVars, currentUser, currentStreak, totalSolved, examQuestions,
                   answers, loading, fetches, logins, signingOut, hash, profiles,
                   exams, saveCalls, streakCalls >>

\* the hash changes and checkHash runs
HashChange ==
  /\ \E h \in {"", "#/admin"} :
       /\ h # hash
       /\ hash' = h
       /\ view' = IF h = "#/admin" /\ checkHashAllows(currentUser) THEN "admin" ELSE view
  /\ UNCHANGED << engineVars, feedVars, currentUser, currentStreak, totalSolved, examQuestions,
                   currentQIndex, answers, showFeedback, loading, timers, fetches,
                   logins, signingOut, profiles, exams, saveCalls, streakCalls >>

\* the timer of the demo feed runs while AdminDashboard is subscribed
DemoFeedItem ==
  /\ IS_DEMO_MODE
  /\ view = "admin"
  /\ currentUser # "null"
  /\ \E u \in Users, isCorrect \in BOOLEAN :
       /\ feedStreak(profiles[u], isCorrect) <= MaxStreak
       /\ profiles' = [profiles EXCEPT ![u] = feedStreak(profiles[u], isCorrect)]
  /\ UNCHANGED << engineVars, feedVars, view, currentUser, currentStreak, totalSolved,
                   examQuestions, currentQIndex, answers, showFeedback, loading,
                   timers, fetches, logins, signingOut, hash, exams, saveCalls,
                   streakCalls >>

InitApp ==
  /\ IS_DEMO_MODE = FALSE
  /\ quiz_history = {}
  /\ question_bank = {}
  /\ now = 0
  /\ pc = "app"
  /\ level = "SMP"
  /\ subject = "Astronomi"
  /\ count = 0
  /\ userId = "u1"
  /\ IdleSession /\ IdleBatch /\ IdleGen /\ IdleCalls /\ IdleApp

NextApp ==
  \/ HandleLogin
  \/ SignInResolves
  \/ HandleLogout
  \/ SignOutResolves
  \/ HandleSelectLevel
  \/ HandleBack
  \/ HandleStartExam
  \/ FetchResolves
  \/ HandleAnswer
  \/ TimerFires
  \/ HashChange

SpecApp == InitApp /\ [][NextApp]_vars

\* demo mode, with the feed of the admin dashboard: specification SpecDemo
InitDemo ==
  /\ IS_DEMO_MODE = TRUE
  /\ quiz_history = {}
  /\ question_bank = {}
  /\ now = 0
  /\ pc = "app"
  /\ level = "SMP"
  /\ subject = "Astronomi"
  /\ count = 0
  /\ userId = "u1"
  /\ IdleSession /\ IdleBatch /\ IdleGen /\ IdleCalls /\ IdleApp

NextDemo ==
  \/ HandleLogin
  \/ SignInResolves
  \/ HandleLogout
  \/ HandleSelectLevel
  \/ HandleBack
  \/ HandleStartExam
  \/ HandleAnswer
  \/ TimerFires
  \/ DemoFeedItem

SpecDemo == InitDemo /\ [][NextDemo]_vars

----------------------------------------------------------------------------
(* subscribeToQuizFeed and the effect of AdminDashboard that calls it, over *)
(* one subscription: specification SpecFeed                                 *)

\* the callback is called at most MaxFeed times
MaxFeed == 4

\* at most MaxHandlers INSERT handlers await their profile at a time
MaxHandlers == 2

\* the effect of AdminDashboard runs: subscribeToQuizFeed(callback); the demo
\* feed calls scheduleNext() at once
SubscribeToQuizFeed ==
  /\ feedSub = "none"
  /\ feedSub' = "open"
  /\ feedTimer' = IS_DEMO_MODE
  /\ UNCHANGED << engineVars, quizVars, feedHandlers, feedCount >>

\* the cleanup of the effect calls the function subscribeToQuizFeed returned:
\* cancelled = true in demo mode, supabase.removeChannel(channel) otherwise
Unsubscribe ==
  /\ feedSub = "open"
  /\ feedSub' = "closed"
  /\ UNCHANGED << engineVars, quizVars, feedTimer, feedHandlers, feedCount >>

\* the setTimeout callback of scheduleNext
FeedTimeout ==
  /\ IS_DEMO_MODE
  /\ feedTimer
  /\ IF feedSub = "closed"
     THEN /\ feedTimer' = FALSE
          /\ UNCHANGED << profiles, feedCount >>
     ELSE /\ feedCount < MaxFeed
          /\ \E u \in Users, isCorrect \in BOOLEAN :
               /\ feedStreak(profiles[u], isCorrect) <= MaxStreak
               /\ profiles' = [profiles EXCEPT ![u] = feedStreak(profiles[u], isCorrect)]
          /\ feedCount' = feedCount + 1
          /\ feedTimer' = TRUE
  /\ UNCHANGED << engineVars, view, currentUser, currentStreak, totalSolved,
                   examQuestions, currentQIndex, answers, showFeedback, loading,
                   timers, fetches, logins, signingOut, hash, exams, saveCalls,
                   streakCalls, feedSub, feedHandlers >>

\* the channel delivers an INSERT on quiz_history: the handler starts and
\* awaits fetchProfileById(row.user_id)
QuizHistoryInsert ==
  /\ ~IS_DEMO_MODE
  /\ feedSub = "open"
  /\ feedHandlers < MaxHandlers
  /\ feedHandlers' = feedHandlers + 1
  /\ UNCHANGED << engineVars, quizVars, feedSub, feedTimer, feedCount >>

\* fetchProfileById resolves and the handler calls callback({...})
ProfileResolves ==
  /\ feedHandlers > 0
  /\ feedCount < MaxFeed
  /\ feedHandlers' = feedHandlers - 1
  /\ feedCount' = feedCount + 1
  /\ UNCHANGED << engineVars, quizVars, feedSub, feedTimer >>

InitFeed ==
  /\ IS_DEMO_MODE \in BOOLEAN
  /\ quiz_history = {}
  /\ question_bank = {}
  /\ now = 0
  /\ pc = "feed"
  /\ level = "SMP"
  /\ subject = "Astronomi"
  /\ count = 0
  /\ userId = "u1"
  /\ IdleSession /\ IdleBatch /\ IdleGen /\ IdleCalls /\ IdleApp

NextFeed ==
  \/ SubscribeToQuizFeed
  \/ Unsubscribe
  \/ FeedTimeout
  \/ QuizHistoryInsert
  \/ ProfileResolves

SpecFeed == InitFeed /\ [][NextFeed]_vars

----------------------------------------------------------------------------
(* Properties *)

signaturesOf(qs) == { qs[i].signature : i \in 1..Len(qs) }

distinctSignatures(qs) ==
  \A i, j \in 1..Len(qs) : i # j => qs[i].signature # qs[j].signature

occurrences(qs, x) == Cardinality({ i \in 1..Len(qs) : qs[i] = x })

isPermutation(a, b) ==
  /\ Len(a) = Len(b)
  /\ \A x \in Range(a) \cup Range(b) : occurrences(a, x) = occurrences(b, x)

\* the signatures the templates of (lv, sb) can produce
poolSignatures(lv, sb) == { q.signature : q \in generatedEntries(lv, sb) }

\* the signatures of the pool that the exclusion set `used` leaves
unseenPool(used) == poolSignatures(level, subject) \ used

bankIds == { r.id : r \in question_bank }

isGenerated(q) == q.id = GeneratedId

\* C1: whatever the two store reads give (rows, an error value, an
\* exception), in demo mode or not, the call resolves with exactly `count`
\* questions
C1_SessionHasCount ==
  pc = "done" => Len(session.questions) = count

C1_Witness ==
  /\ pc = "done"
  /\ path = "normal"
  /\ count = 2
  /\ Len(dbQuestions) = 1
  /\ historyRead = "error"
  /\ Len(session.questions) = 2

\* C2: a batch returned with mastery = false has `count` questions with
\* pairwise distinct signatures, none of them in the excluded set
C2_DedupWithoutMastery ==
  (pc = "batch_done" /\ ~session.mastery) =>
    /\ Len(session.questions) = count
    /\ distinctSignatures(session.questions)
    /\ signaturesOf(session.questions) \cap usedSignatures = {}

C2_Witness ==
  /\ pc = "batch_done"
  /\ ~session.mastery
  /\ count = 2
  /\ Len(session.questions) = 2
  /\ usedSignatures = astroSigs \ {"astro-Jupiter", "astro-Saturnus"}

\* C3: no batch holds two questions with the same signature, fillers included
C3_BatchSignaturesDistinct ==
  pc = "batch_done" => distinctSignatures(session.questions)

\* C4: mastery is true only when fewer unseen signatures exist than questions
\* were requested
C4_MasteryOnlyWhenExhausted ==
  (pc = "batch_done" /\ session.mastery) =>
    Cardinality(unseenPool(usedSignatures)) < count

\* C5: with fewer unseen signatures than requested questions the batch has
\* mastery = true and still `count` questions
C5_ExhaustionFillsToCount ==
  (pc = "batch_done" /\ Cardinality(unseenPool(usedSignatures)) < count) =>
    /\ session.mastery
    /\ Len(session.questions) = count

C5_Witness ==
  /\ pc = "batch_done"
  /\ count = 2
  /\ Cardinality(unseenPool(usedSignatures)) = 1
  /\ session.mastery
  /\ \E i \in 1..2 : session.questions[i].signature = "astro-Jupiter"

\* C6: when the curated query gives an error value or throws, the session
\* has `count` questions and all of them come from the generator: no id or
\* signature of a question_bank row, no imageUrl
C6_CuratedFailureIsProcedural ==
  (pc = "done" /\ curatedRead \in {"error", "throw"}) =>
    /\ Len(session.questions) = count
    /\ \A i \in 1..Len(session.questions) :
         LET q == session.questions[i]
         IN  /\ isGenerated(q)
             /\ q.id \notin bankIds
             /\ q.signature \notin bankIds
             /\ q.imageUrl = NoImage

C6_Witness ==
  /\ pc = "done"
  /\ curatedRead = "throw"
  /\ count = 2
  /\ Len(session.questions) = 2
  /\ bankRow1 \in question_bank
  /\ "qb-1" \notin usedSignatures

\* C7: on the normal path the session is a permutation of the k mapped
\* curated questions and count - k generated questions of the requested
\* level and subject, and mastery is false when the unseen signatures were
\* enough for the generator (or it was not called)
C7_NormalPathMerge ==
  (pc = "done" /\ path = "normal") =>
    /\ isPermutation(session.questions, dbQuestions \o questions)
    /\ Len(questions) = count - Len(dbQuestions)
    /\ \A i \in 1..Len(questions) :
         /\ isGenerated(questions[i])
         /\ questions[i].level = level
         /\ questions[i].subject = subject
    /\ (Cardinality(unseenPool(bused)) >= bcount => ~session.mastery)

\* C8: on the normal path with mastery = false no generated question has a
\* signature of the user's history or of a curated question of the session,
\* and the signatures of the session are pairwise distinct
C8_SessionDedup ==
  (pc = "done" /\ path = "normal" /\ ~session.mastery) =>
    /\ \A i \in 1..Len(session.questions) :
         LET q == session.questions[i]
         IN  isGenerated(q) =>
               /\ q.signature \notin usedSignatures
               /\ q.signature \notin signaturesOf(dbQuestions)
    /\ distinctSignatures(session.questions)

C8_Witness ==
  /\ pc = "done"
  /\ path = "normal"
  /\ ~session.mastery
  /\ count = 2
  /\ Len(dbQuestions) = 1
  /\ "astro-Tahuncahay" \in usedSignatures
  /\ \E i \in 1..2 : isGenerated(session.questions[i])

\* C9: every question of a session has 4 options and a correctIndex that
\* indexes them, whatever options the curated rows carry
C9_SessionQuestionsWellFormed ==
  pc = "done" =>
    \A i \in 1..Len(session.questions) :
      /\ session.questions[i].nOptions = 4
      /\ session.questions[i].indexValid

\* the rendering of the answer a template result declares
declaredAnswer(r) ==
  IF r.isStringAnswer THEN r.answerStr ELSE renderNumber(r.answerNum)

\* C10: a generated question has 4 options, 0 <= correctIndex < 4, and the
\* option at correctIndex is the rendering of the template's correct answer
C10_GeneratedOptions ==
  pc = "generated" =>
    /\ Len(gq.options) = 4
    /\ gq.correctIndex \in 0..3
    /\ gq.options[gq.correctIndex + 1] = declaredAnswer(tresult)

C10_Witness ==
  /\ pc = "generated"
  /\ ~tresult.isStringAnswer
  /\ tresult.answerNum = 750
  /\ gq.correctIndex = 2
  /\ gq.options[3] = "7.50"

\* the positions (from 1) of the options that equal the answer once both are
\* trimmed and lower-cased
matchingPositions(row) ==
  { i \in 1..Len(row.options) : trimLower(row.options[i]) = trimLower(row.answer) }

\* C11: for a row whose options are an array of texts, mapDbRowToQuestion
\* returns (it does not throw) with correctIndex at the first option that
\* equals the answer after trim and lower-casing, and 0 when none does
C11_CorrectIndexFirstMatchOrZero ==
  \A row \in question_bank :
    (pc \in {"mapped", "map_threw"} /\ row.optionsIsArray) =>
      /\ pc = "mapped"
      /\ gq.options = row.options
      /\ IF matchingPositions(row) = {}
         THEN gq.correctIndex = 0
         ELSE /\ gq.correctIndex + 1 \in matchingPositions(row)
              /\ \A m \in matchingPositions(row) : gq.correctIndex + 1 <= m

C11_Witness ==
  /\ pc = "mapped"
  /\ gq.options = <<"Mars", "Venus", " venus">>
  /\ gq.correctIndex = 0
  /\ \E row \in question_bank : row.answer = "Pluto"

\* the signatures of the rows of quiz_history that belong to `user`
historySignatures(user) ==
  { h.question_signature : h \in { r \in quiz_history : r.user_id = user } }

\* C12: when the history read, the curated query or the mapping of a row
\* throws, the call resolves with generateQuestionBatch(level, subject, count)
\* called without exclusions: `count` generated questions, the batch as it is
C12_CatchDegradesWithoutExclusions ==
  /\ (pc = "done" /\ (historyRead = "throw" \/ curatedRead = "throw")) => path = "catch"
  /\ path = "catch" =>
       /\ pc \in {"batch_loop", "batch_fill", "done"}
       /\ bused = {}
       /\ bcount = count
  /\ (pc = "done" /\ path = "catch") =>
       /\ session = [questions |-> questions, mastery |-> mastery]
       /\ Len(session.questions) = count
       /\ \A i \in 1..Len(session.questions) : isGenerated(session.questions[i])

\* the mapping of a row threw, and a question of the user's history came back
C12_Witness ==
  /\ pc = "done"
  /\ path = "catch"
  /\ curatedRead = "rows"
  /\ "astro-Jupiter" \in historySignatures(userId)
  /\ \E i \in 1..Len(session.questions) : session.questions[i].signature = "astro-Jupiter"

\* C13: when the history read fails (an error value or an exception) the
\* session holds generated questions only, none that came from question_bank
C13_HistoryFailureIsProcedural ==
  (pc = "done" /\ historyRead \in {"error", "throw"}) =>
    \A i \in 1..Len(session.questions) :
      /\ isGenerated(session.questions[i])
      /\ session.questions[i].id \notin bankIds

\* C14: for a (level, subject) pair without a registered template list
\* generateQuestion returns (it does not throw) a question built from the
\* default template, mathSMPTemplates[0], with the level and subject it was
\* called with
C14_UnknownPairFallsBack ==
  registryKey(level, subject) \notin DOMAIN templateRegistry =>
    /\ pc = "generate" => ENABLED GenerateQuestion
    /\ pc = "generated" =>
         /\ tresult \in mathSMPTemplate0
         /\ gq.signature = tresult.signatureBase
         /\ gq.diagramType = "triangle"
         /\ gq.level = level
         /\ gq.subject = subject

C14_Witness ==
  /\ pc = "generated"
  /\ level = "SMP"
  /\ registryKey(level, subject) \notin DOMAIN templateRegistry
  /\ gq.level = "SMP"
  /\ gq.subject = "Astronomi"
  /\ gq.signature = "mat-tri-b6-h4"
  /\ gq.diagramType = "triangle"

\* the questions of a batch that the dedup loop collected: their signature
\* is one of the pool, a filler's carries the -dup- suffix
collectedByDedup(qs) ==
  Cardinality({ i \in 1..Len(qs) : qs[i].signature \in poolSignatures(level, subject) })

\* the call counts of a batch: at most count * 50 calls of generateQuestion in
\* the dedup loop, and in the fill loop as many as questions were missing
callsWithinBudget ==
  /\ dedupCalls <= count * RetryFactor
  /\ pc = "batch_loop" => fillCalls = 0
  /\ pc = "batch_fill" => fillCalls = Len(questions) - collectedByDedup(questions)
  /\ pc = "batch_done" =>
       /\ Len(session.questions) = count
       /\ fillCalls = count - collectedByDedup(session.questions)

\* C15: generateQuestionBatch terminates for every count and exclusion set,
\* after at most count * 50 calls of generateQuestion in the dedup loop and
\* exactly count - (questions collected) calls in the fill loop
C15_BatchTerminatesWithinBudget ==
  /\ []callsWithinBudget
  /\ <>(pc = "batch_done")

C15_Witness ==
  /\ pc = "batch_done"
  /\ usedSignatures = astroSigs \ {"astro-Jupiter"}
  /\ count = 2
  /\ dedupCalls = 2 * RetryFactor
  /\ fillCalls = 1
  /\ session.mastery

\* C16: when the curated query gives `count` rows the generator is not
\* called (no batch is started, no question generated) and the session, the
\* curated questions in some order, has mastery = false
C16_NoGeneratorWhenCuratedFills ==
  (path = "normal" /\ Len(dbQuestions) >= count) =>
    /\ pc = "done"
    /\ bcount = 0
    /\ questions = <<>>
    /\ dedupCalls = 0 /\ fillCalls = 0
    /\ ~session.mastery
    /\ isPermutation(session.questions, dbQuestions)

C16_Witness ==
  /\ pc = "done"
  /\ path = "normal"
  /\ count = 2
  /\ Len(dbQuestions) = 2
  /\ signaturesOf(session.questions) = {"qb-1", "qb-2"}
  /\ ~session.mastery

\* C17: no step of fetchSmartSession, on any of its paths, changes the
\* contents of the history store or of the curated store
C17_StoresNeverWritten ==
  [][quiz_history' = quiz_history /\ question_bank' = question_bank]_vars

C17_Witness ==
  /\ pc = "done"
  /\ path = "normal"
  /\ historyRead = "rows"
  /\ curatedRead = "rows"
  /\ historySignatures(userId) = {"qb-1", "astro-Saturnus"}
  /\ bankRow1 \in question_bank
  /\ Len(session.questions) = 2

\* what a single call promises, for the call c of user u: `count` questions;
\* exclusions made of u's own history and of the curated rows the call
\* fetched; no curated question u has answered; and without mastery no
\* generated question of u's history, nor two questions with one signature
singleCallContract(u, c) ==
  /\ Len(c.session.questions) = c.count
  /\ c.usedSignatures \subseteq historySignatures(u)
  /\ c.historyRead = "rows" => c.usedSignatures = historySignatures(u)
  /\ c.path = "normal" =>
       /\ \A i \in 1..Len(c.dbQuestions) :
            /\ c.dbQuestions[i].id \in bankIds
            /\ c.dbQuestions[i].id \notin historySignatures(u) \/ c.historyRead = "error"
       /\ c.bcount > 0 =>
            c.bused = c.usedSignatures \cup signaturesOf(c.dbQuestions)
       /\ isPermutation(c.session.questions, c.dbQuestions \o c.questions)
       /\ ~c.session.mastery =>
            /\ \A i \in 1..Len(c.questions) :
                 c.questions[i].signature \notin
                   c.usedSignatures \cup signaturesOf(c.dbQuestions)
            /\ distinctSignatures(c.session.questions)

\* C18: when the calls for two users take turns at their awaits in any
\* order, each call builds its exclusions from its own user's history and
\* its own curated rows, and each result keeps the single-call contract
C18_InterleavedCallsIndependent ==
  \A u \in Users : calls[u].pc = "done" => singleCallContract(u, calls[u])

\* both calls returned: u1 got a question of u2's history, u2 one of u1's
C18_Witness ==
  /\ calls["u1"].pc = "done" /\ calls["u2"].pc = "done"
  /\ calls["u1"].path = "normal" /\ calls["u2"].path = "normal"
  /\ historySignatures("u1") = {"qb-1", "astro-Saturnus"}
  /\ historySignatures("u2") = {"astro-Jupiter"}
  /\ ~calls["u1"].session.mastery /\ ~calls["u2"].session.mastery
  /\ signaturesOf(calls["u1"].session.questions) = {"astro-Jupiter"}
  /\ signaturesOf(calls["u2"].session.questions) = {"qb-1", "astro-Saturnus"}

\* C19: in a session no question has a diagram and an image: a curated
\* question has diagramType 'none' and the id of its row as id and as
\* signature, a generated question has no imageUrl
C19_OneKindOfVisual ==
  pc = "done" =>
    \A i \in 1..Len(session.questions) :
      LET q == session.questions[i]
      IN  /\ ~(q.diagramType # "none" /\ q.imageUrl # NoImage)
          /\ isGenerated(q) => q.imageUrl = NoImage
          /\ ~isGenerated(q) =>
               /\ q.diagramType = "none"
               /\ q.id \in bankIds
               /\ q.signature = q.id

\* a curated question with an image next to a generated one with a diagram
C19_Witness ==
  /\ pc = "done"
  /\ path = "normal"
  /\ \E i, j \in 1..Len(session.questions) :
       /\ session.questions[i].id = "qb-5"
       /\ session.questions[i].imageUrl = "https://img/5.png"
       /\ isGenerated(session.questions[j])
       /\ session.questions[j].diagramType = "triangle"

\* C20: no session holds a curated question whose question_bank row is
\* inactive; the query does not filter on is_active, the select policy does
C20_NoInactiveRowInSession ==
  pc = "done" =>
    \A i \in 1..Len(session.questions) :
      \A row \in question_bank :
        row.id = session.questions[i].id => row.is_active

\* an inactive row of the level and subject, not in the history, was left
\* out although the active rows were fewer than `count`
C20_Witness ==
  /\ pc = "done"
  /\ path = "normal"
  /\ count = 2
  /\ bankRow6 \in question_bank
  /\ bankRow6.id \notin usedSignatures
  /\ signaturesOf(dbQuestions) = {"qb-1"}
  /\ \E i \in 1..2 : isGenerated(session.questions[i])

\* a mastery filler: a generated question under a '-dup-' signature, which no
\* template produces
isFiller(q) == isGenerated(q) /\ q.signature \notin poolSignatures(level, subject)

\* C21: once saveQuizResult has stored a user's answer to the signature s,
\* a later fetchSmartSession of that user whose history read and curated
\* query both succeed outside demo mode returns no question with signature
\* s, curated or generated, other than a mastery filler
C21_SavedSignatureNotServedAgain ==
  (pc = "done" /\ ~IS_DEMO_MODE /\ path = "normal" /\ historyRead = "rows") =>
    \A r \in saved :
      r.user_id = userId =>
        \A i \in 1..Len(session.questions) :
          session.questions[i].signature = r.question_signature =>
            isFiller(session.questions[i])

\* the user's answer to 'astro-Jupiter' was saved, and the later session was
\* served from the signatures that were left
C21_Witness ==
  /\ pc = "done"
  /\ ~IS_DEMO_MODE
  /\ path = "normal"
  /\ historyRead = "rows"
  /\ saved = {[user_id |-> userId, question_signature |-> "astro-Jupiter"]}
  /\ Len(session.questions) = count
  /\ \A i \in 1..Len(session.questions) :
       session.questions[i].signature # "astro-Jupiter"


\* C22: for a batch with count > 0, mastery is true exactly when the batch
\* holds a filler (a '-dup-' signature), and every other question of the
\* batch carries a template signature that is not in the exclusion set,
\* with mastery true as with mastery false
C22_MasteryIffFiller ==
  (pc = "batch_done" /\ count > 0) =>
    /\ session.mastery <=> \E i \in 1..Len(session.questions) : isFiller(session.questions[i])
    /\ \A i \in 1..Len(session.questions) :
         ~isFiller(session.questions[i]) =>
           /\ session.questions[i].signature \in poolSignatures(level, subject)
           /\ session.questions[i].signature \notin usedSignatures

\* one signature was left: the batch holds it unsuffixed, next to a filler
C22_Witness ==
  /\ pc = "batch_done"
  /\ count = 2
  /\ usedSignatures = astroSigs \ {"astro-Jupiter"}
  /\ session.mastery
  /\ session.questions[1].signature = "astro-Jupiter"
  /\ isFiller(session.questions[2])


\* C23: in demo mode fetchSmartSession makes no history read and no
\* curated query, calls the generator for `count` questions with an empty
\* exclusion set and returns what generateQuestionBatch(level, subject,
\* count) returns; the signatures of the demo quiz history are not excluded
C23_DemoModeSkipsStores ==
  IS_DEMO_MODE =>
    /\ historyRead = "none" /\ curatedRead = "none"
    /\ usedSignatures = {} /\ dbQuestions = <<>>
    /\ pc \in {"batch_loop", "batch_fill"} => (bcount = count /\ bused = {})
    /\ pc = "done" =>
         /\ path = "demo"
         /\ \E o \in batchOutcomes(level, subject, count, {}, 0) :
              session = [questions |-> o.questions, mastery |-> o.mastery]

\* a demo session without mastery that serves a signature the user's demo
\* history holds
C23_Witness ==
  /\ IS_DEMO_MODE
  /\ pc = "done"
  /\ count = 2
  /\ ~session.mastery
  /\ signaturesOf(session.questions) \subseteq historySignatures(userId)
  /\ historyRead = "none" /\ curatedRead = "none"


\* the spread makeOptions works with, in the unit of the answers
spreadInUse == spreadOf(tresult.answerNum, tresult.spread)

optionsReturned ==
  /\ Len(distractors) = 3
  /\ \A i, j \in 1..3 : i # j => distractors[i] # distractors[j]
  /\ \A i \in 1..3 :
       /\ distractors[i] # tresult.answerNum
       /\ abs(distractors[i] - tresult.answerNum) <= 100 * Max(spreadInUse, 3)

\* C24: makeOptions comes to its return, with exactly 3 distractors that
\* differ from each other and from the correct value, each of them within
\* max(s, 3) of the correct value, s being the spread or, without one,
\* max(1, floor(|correct| * 0.3))
C24_ThreeDistractorsWithinSpread ==
  /\ <>(pc = "options_done")
  /\ [](pc = "options_done" => optionsReturned)

\* spread 1: after -1 and +1 only the offset 0 adds a distractor, at
\* distance 3
C24_Witness ==
  /\ pc = "options_done"
  /\ tresult.answerNum = 35
  /\ spreadInUse = 1
  /\ distractors = << -65, 135, 335 >>


\* C25: the 4 option strings of every generated question differ from each
\* other, so exactly one of them is the correct answer, for the string
\* templates too, the decimal-to-binary template included
C25_OptionsPairwiseDistinct ==
  pc = "generated" =>
    /\ \A i, j \in 1..Len(gq.options) : i # j => gq.options[i] # gq.options[j]
    /\ Cardinality({ i \in 1..Len(gq.options) :
                       gq.options[i] = gq.options[gq.correctIndex + 1] }) = 1


\* the entries of `answers` for the question at index i
answersFor(i) == Cardinality({ k \in 1..Len(answers) : answers[k].questionIndex = i })

\* the saveQuizResult calls issued for the signature sig
savesFor(sig) ==
  LET n(u) == IF << u, sig >> \in DOMAIN saveCalls THEN saveCalls[<< u, sig >>] ELSE 0
  IN  n("u1") + n("u2") + n("admin")

\* the quiz flow is past the question at index i of the session on screen
answered(i) ==
  \/ view = "results"
  \/ i < currentQIndex
  \/ i = currentQIndex /\ showFeedback

\* C26: every question of the session on screen that the quiz flow is past
\* has exactly one entry in answers and exactly one saveQuizResult call, and
\* the questions it has not reached have none
C26_OneAnswerPerQuestion ==
  (view \in {"exam", "results"} /\ ~loading) =>
    \A i \in 0..(Len(examQuestions) - 1) :
      /\ answersFor(i) = (IF answered(i) THEN 1 ELSE 0)
      /\ savesFor(examQuestions[i + 1]) = (IF answered(i) THEN 1 ELSE 0)


\* a step of handleAnswer: one more entry in answers
answerStep == Len(answers') = Len(answers) + 1

\* C27: an answer adds exactly 1 to the streak when it is correct and sets
\* it to 0 when it is wrong, adds 1 to totalSolved, and sends the new streak
\* to updateStreak for the user logged in; between answers the streak and
\* totalSolved change at a login or a logout only.  Hence the streak is the
\* number of correct answers since the last wrong one, added to the value
\* held at that point
C27_StreakFollowsAnswers ==
  [][ /\ answerStep =>
           /\ currentStreak' = (IF answers'[Len(answers')].isCorrect
                                THEN currentStreak + 1 ELSE 0)
           /\ totalSolved' = totalSolved + 1
           /\ currentUser # "null" =>
                streakCalls' = [n |-> streakCalls.n + 1, user_id |-> currentUser,
                                streak |-> currentStreak']
      /\ ~answerStep =>
           /\ streakCalls' = streakCalls
           /\ (currentStreak' # currentStreak \/ totalSolved' # totalSolved) =>
                (currentUser' # currentUser \/ view' = "login") ]_vars

\* u1 logged in with a streak of 1, answered wrong, then right twice
C27_Witness ==
  /\ currentUser = "u1"
  /\ totalSolved = 3
  /\ currentStreak = 2
  /\ streakCalls = [n |-> 3, user_id |-> "u1", streak |-> 2]

\* C28: the admin view is shown to an admin only; a login through the admin
\* form with a non-admin account changes neither the user nor the view; after
\* a logout currentUser is null and the view is 'login'
C28_AdminViewOnlyForAdmin ==
  /\ [](view = "admin" => (currentUser # "null" /\ roleOf(currentUser) = "admin"))
  /\ [][ /\ (\E l \in logins : l \notin logins' /\ l.roleMode = "admin"
                                /\ roleOf(l.account) # "admin") =>
              (currentUser' = currentUser /\ view' = view)
         /\ (signingOut /\ ~signingOut') =>
              (currentUser' = "null" /\ view' = "login") ]_vars

\* a student is logged in and the hash is '#/admin': the view has not changed
C28_Witness ==
  /\ hash = "#/admin"
  /\ currentUser = "u1"
  /\ view = "dashboard"

\* C30: in demo mode the current_streak of every profile stays >= 0, however
\* the items of the feed (+1, or -1 with a floor of 0) and the updateStreak
\* calls of the quiz flow follow each other
C30_DemoStreakNeverNegative ==
  \A a \in Accounts : profiles[a] >= 0

\* the quiz flow has written u1's streak, and the feed has since taken it
\* down to 0 and raised u2's
C30_Witness ==
  /\ view = "admin"
  /\ streakCalls.n > 0
  /\ streakCalls.streak > 0
  /\ profiles["u1"] = 0
  /\ profiles["u2"] = 1


\* C29: once the function returned by subscribeToQuizFeed has been called,
\* the callback is not called again, in demo mode and in live mode
C29_NoCallbackAfterUnsubscribe ==
  [][feedSub = "closed" => feedCount' = feedCount]_vars


====
